---------------------------- MODULE Spec2Model ----------------------------
(***************************************************************************)
(* ISS tracker (src/iss_tracker.py): a Flask application whose request     *)
(* handlers share one Redis hash, "iss_data".  The hash is filled from the *)
(* upstream XML feed by process_data, one HSET per state vector, and read  *)
(* by the routes.  Every Redis command and the HTTP fetch is one atomic    *)
(* step of a handler; handlers interleave between steps.  What a handler   *)
(* computes after its last Redis command is local to it and belongs to the *)
(* step of that command.                                                   *)
(***************************************************************************)
EXTENDS Integers, Sequences, FiniteSets, TLC

(* Request handlers that may run concurrently (Flask serves threaded). *)
Handlers == {"h1", "h2"}

(* The clock reads 0 when the module is imported and at most MaxClock later. *)
MaxClock == 1

(* Largest integer a client sends as limit / offset; the smallest is -1. *)
MaxArg == 3

VARIABLES
    layout,      \* the layout of the epoch strings the upstream writes
    store,       \* the Redis hash "iss_data": a function from keys to values
    feed,        \* what the upstream URL serves at the moment
    pc,          \* pc[h]: where handler h is in its request
    doc,         \* doc[h]: the stateVector elements h fetched, for its ingest loop
    idx,         \* idx[h]: the element of doc[h] the ingest loop handles next
    defaultNow,  \* closest_epoch.__defaults__[0]: the default of parameter dateTime
    hist,        \* hist[h]: what h's get_iss_data call has done so far (history)
    out,         \* the response the last step sent, if it sent one (observation)
    goodFetches, \* history: fetches that returned a well-formed non-empty document
    lastLoadFailed \* history: the last get_iss_data call to end raised

vars == <<layout, store, feed, defaultNow, pc, doc, idx, hist, out, goodFetches, lastLoadFailed>>

---------------------------------------------------------------------------
(* Strings of the feed.                                                    *)

(* An epoch string.  fmt is its layout: "doy" is YYYY-DDDThh:mm:ss (the    *)
(* NASA feed's), "iso" is YYYY-MM-DD hh:mm:ss; sec is the second it names; *)
(* frac is the text after the first '.', "none" when there is no '.'.      *)
Epoch(fmt, sec, frac) == [fmt |-> fmt, sec |-> sec, frac |-> frac]

Layouts == {"doy", "iso"}

(* epoch_str.split('.')[0]: the text before the first '.'. *)
SplitDot(e) == [e EXCEPT !.frac = "none"]

(* The text of a numeric element of a stateVector. *)
Num(n) == [k |-> "num", n |-> n]
BadText == [k |-> "bad", n |-> 0]
NaNText == [k |-> "nan", n |-> 0]

FieldNames == {"X", "Y", "Z", "X_DOT", "Y_DOT", "Z_DOT"}

(* float(state_vector.find(F).text) returns: the text is there and is a    *)
(* number or "nan", which float() accepts.  The float keeps the shape of   *)
(* its text: Num(n) is the number n, NaNText the float nan.                *)
FloatOk(t) == t.k \in {"num", "nan"}

ElementOk(el) == \A f \in FieldNames : FloatOk(el[f])

(* A stateVector element with position (n, n, n) and velocity (v, v, v). *)
Element(e, n, v) ==
    [EPOCH |-> e, X |-> Num(n), Y |-> Num(n), Z |-> Num(n),
     X_DOT |-> Num(v), Y_DOT |-> Num(v), Z_DOT |-> Num(v)]

(* The dict of floats process_data builds for an element; the hash holds   *)
(* its str().                                                              *)
DictOf(el) ==
    [x |-> el.X, y |-> el.Y, z |-> el.Z,
     x_dot |-> el.X_DOT, y_dot |-> el.Y_DOT, z_dot |-> el.Z_DOT]

(* eval(data) of a stored str(dict) returns the dict: the repr of a number *)
(* evaluates to the number, but the repr of nan is the name nan, and       *)
(* evaluating it raises NameError.                                         *)
EvalOk(val) == \A f \in DOMAIN val : val[f].k = "num"

(* A well-formed document of n stateVectors in layout l, one a second. *)
LongDoc(l, n) == [i \in 1..n |-> Element(Epoch(l, i - 1, "000"), i, i)]

(* The documents the upstream serves in this model, in layout l. *)
GoodDoc(l) == LongDoc(l, 3)

BadMidDoc(l) ==
    [GoodDoc(l) EXCEPT ![2] = [GoodDoc(l)[2] EXCEPT !.Y_DOT = BadText]]

EmptyDoc == << >>

(* A well-formed document whose second stateVector has X_DOT "NaN". *)
NaNDoc(l) ==
    [GoodDoc(l) EXCEPT ![2] = [GoodDoc(l)[2] EXCEPT !.X_DOT = NaNText]]

(* A well-formed document whose first two epochs differ in the fraction of *)
(* the second only, and whose third is two seconds later.                  *)
DupDoc(l) ==
    << Element(Epoch(l, 0, "000"), 1, 1),
       Element(Epoch(l, 0, "500"), 4, 4),
       Element(Epoch(l, 2, "000"), 3, 3) >>

(* "down": requests.get or raise_for_status raises; "garbled": the body is *)
(* not XML; otherwise the document served.                                 *)
FeedStates == {"down", "garbled", "good", "badmid", "empty"}

(* Every document of the model: FeedStates and the two above. *)
AllFeeds == FeedStates \cup {"nan", "dup"}

IsDoc(f) == f \in {"good", "badmid", "empty", "nan", "dup"}

DocOf(f, l) ==
    CASE f = "good" -> GoodDoc(l)
      [] f = "badmid" -> BadMidDoc(l)
      [] f = "nan" -> NaNDoc(l)
      [] f = "dup" -> DupDoc(l)
      [] OTHER -> EmptyDoc

WellFormed(d) == \A i \in 1..Len(d) : ElementOk(d[i])

Healthy(f) == IsDoc(f) /\ WellFormed(DocOf(f, "doy")) /\ Len(DocOf(f, "doy")) > 0

---------------------------------------------------------------------------
(* The Redis hash.                                                         *)

EmptyHash == [k \in {} |-> 0]

HLen(s) == Cardinality(DOMAIN s)

(* An HSETNX: a field the hash has keeps its value. *)
HSet_KeepOld(s, key, val) ==
    [k \in DOMAIN s \cup {key} |-> IF k \in DOMAIN s THEN s[k] ELSE val]

(* HSET iss_data key val: a new field is added, an old one overwritten. *)
HSet(s, key, val) == [k \in DOMAIN s \cup {key} |-> IF k = key THEN val ELSE s[k]]

(* HGET iss_data key: the value; None when the hash has no such field. *)
HasKey(s, key) == key \in DOMAIN s
HGet(s, key) == s[key]

(* HGETALL iss_data: every field, in an order Redis does not specify. *)
HGetAll(s) ==
    LET n == HLen(s)
        orders == {o \in [1..n -> DOMAIN s] : \A i, j \in 1..n : o[i] = o[j] => i = j}
    IN  {[i \in 1..n |-> [key |-> o[i], val |-> s[o[i]]]] : o \in orders}

---------------------------------------------------------------------------
(* Pure parts of the handlers.                                             *)

(* A response, with the inputs the handler used and what its call did.     *)
(* route "none": no response.  status: the HTTP status; error: the         *)
(* exception behind it.  body: the records sent.  series: the list         *)
(* get_iss_data returned.  args: "int" when limit and offset were given.   *)
(* now: the clock when the request was handled; target: the time           *)
(* closest_epoch compared with.  sawLen, fetched, wrote, recovering: hist  *)
(* of the call.  wasEmpty, feedOk, inFeed: the hash was empty, the feed    *)
(* healthy and the epoch asked for in the feed when the request was        *)
(* handled.                                                                *)
NoOut ==
    [route |-> "none", h |-> "none", status |-> 0, error |-> "none", body |-> << >>,
     series |-> << >>, args |-> "none", limit |-> 0, offset |-> 0,
     epoch |-> Epoch("none", 0, "none"), target |-> 0, now |-> 0,
     sawLen |-> -1, fetched |-> FALSE, wrote |-> FALSE, recovering |-> FALSE,
     wasEmpty |-> FALSE, feedOk |-> FALSE, inFeed |-> FALSE,
     comps |-> << >>, value |-> [k |-> "none", n |-> 0], speeds |-> << >>,
     first |-> 0, last |-> 0, span |-> 0]

(* What a get_iss_data call has done.  sawLen: what HLEN returned at line  *)
(* 73, -1 before; fetched: it requested the feed; wrote: it did an HSET;   *)
(* recovering: at line 73 the last call to end had raised and the feed     *)
(* was healthy.                                                            *)
NoHist == [sawLen |-> -1, fetched |-> FALSE, wrote |-> FALSE, recovering |-> FALSE]

(* The response of handler h on route r, with h's history: code 200, or    *)
(* the status Flask gives exception err.                                   *)
Response(h, r, code, err, hs) ==
    [NoOut EXCEPT !.route = r, !.h = h, !.status = code, !.error = err,
                  !.sawLen = hs.sawLen, !.fetched = hs.fetched, !.wrote = hs.wrote,
                  !.recovering = hs.recovering]

(* get_iss_data line 82 for one HGETALL result: each field becomes         *)
(* {"epoch": key.split('.')[0], **eval(value)}.                            *)
Decorate(fields) ==
    [i \in 1..Len(fields) |-> [epoch |-> SplitDot(fields[i].key), val |-> fields[i].val]]

(* A get_iss_data that reloads the feed on every call. *)
LoadNeeded_Always(len) == len >= 0

(* get_iss_data line 73: the feed is loaded when the hash has no field. *)
LoadNeeded(len) == len = 0

(* A get_epochs that accepts offset 0. *)
OffsetRejected_ZeroAllowed(offset, n) == offset < 0 \/ offset >= n

(* get_epochs line 178: the offsets it answers with BadRequest. *)
OffsetRejected(offset, n) == offset <= 0 \/ offset >= n

(* get_epochs lines 180-181: the limit the loop runs with. *)
EffectiveLimit(limit, offset, n) ==
    IF limit <= 0 \/ limit + offset >= n THEN n ELSE limit

(* A get_epochs whose loop starts one record late. *)
LoopIndices_OneLate(offset, limit) == [j \in 1..limit |-> offset + j]

(* get_epochs line 183: range(offset, offset + limit), as 0-based indices. *)
LoopIndices(offset, limit) == [j \in 1..limit |-> offset + (j - 1)]

(* get_epochs lines 175-185 on the list get_iss_data returned: the status  *)
(* and the body.  An index past the end of the list raises IndexError,     *)
(* which Flask answers with 500.                                           *)
GetEpochsSlice(series, limit, offset) ==
    LET n == Len(series)
        at == LoopIndices(offset, EffectiveLimit(limit, offset, n))
    IN  IF OffsetRejected(offset, n)
        THEN [status |-> 400, error |-> "BadRequest", body |-> << >>]
        ELSE IF \E j \in 1..Len(at) : at[j] >= n
        THEN [status |-> 500, error |-> "IndexError", body |-> << >>]
        ELSE [status |-> 200, error |-> "none",
              body |-> [j \in 1..Len(at) |-> series[at[j] + 1]]]

(* datetime.strptime(key, "%Y-%m-%d %H:%M:%S.%f") and, when that raises,   *)
(* without ".%f": a key has no '.', so the second decides, and it accepts  *)
(* the iso layout only.                                                    *)
StrptimeOk(key) == key.fmt = "iso" /\ key.frac = "none"
Strptime(key) == key.sec

Abs(n) == IF n < 0 THEN -n ELSE n

(* closest_epoch lines 94-103 from field i on; best is the index of        *)
(* closest_vector in fields, 0 for None.  The scan stops at the first      *)
(* field that raises: ValueError for a key strptime rejects, NameError     *)
(* for a closer field whose value eval cannot read.                        *)
RECURSIVE ScanClosest(_, _, _, _)
ScanClosest(fields, i, now, best) ==
    IF i > Len(fields) THEN [best |-> best, error |-> "none"]
    ELSE IF ~StrptimeOk(fields[i].key) THEN [best |-> best, error |-> "ValueError"]
    ELSE LET diff == Abs(Strptime(fields[i].key) - now)
             better == best = 0 \/ diff < Abs(Strptime(fields[best].key) - now)
         IN  IF better /\ ~EvalOk(fields[i].val)
             THEN [best |-> best, error |-> "NameError"]
             ELSE ScanClosest(fields, i + 1, now, IF better THEN i ELSE best)

(* closest_epoch lines 93-106: what the call does with one HGETALL result. *)
(* Status 200 is a return and 500 a raise; the body of a return is the     *)
(* closest vector, and empty for None.                                     *)
ClosestVector(fields, target) ==
    LET r == ScanClosest(fields, 1, target, 0)
    IN  IF r.error # "none"
        THEN [status |-> 500, error |-> r.error, body |-> << >>]
        ELSE IF r.best = 0 THEN [status |-> 200, error |-> "none", body |-> << >>]
        ELSE [status |-> 200, error |-> "none",
              body |-> << [epoch |-> Epoch("datetime", Strptime(fields[r.best].key), "none"),
                           val |-> fields[r.best].val] >>]

(* closest_epoch lines 93-106 and get_now_epoch line 242: the status and   *)
(* the body.  What closest_epoch raises goes through, and None["x_dot"]    *)
(* raises TypeError: Flask answers both with 500.                          *)
ClosestEpoch(fields, target) ==
    LET r == ClosestVector(fields, target)
    IN  IF r.status = 200 /\ r.body = << >>
        THEN [status |-> 500, error |-> "TypeError", body |-> << >>]
        ELSE r

(* A get_specific_epoch that raises a plain exception for an epoch the     *)
(* hash does not hold.                                                     *)
LookupEpoch_Raises(s, e) ==
    IF ~HasKey(s, SplitDot(e))
    THEN [status |-> 500, error |-> "Exception", body |-> << >>]
    ELSE IF ~EvalOk(HGet(s, SplitDot(e)))
    THEN [status |-> 500, error |-> "NameError", body |-> << >>]
    ELSE [status |-> 200, error |-> "none",
          body |-> << [epoch |-> e, val |-> HGet(s, SplitDot(e))] >>]

(* get_specific_epoch lines 194-199 on hash s for request epoch e: HGET    *)
(* of e.split('.')[0]; no field raises BadRequest, which Flask answers     *)
(* with 400; a value eval cannot read raises NameError (500); else the     *)
(* dict of the request epoch and the stored values.                        *)
LookupEpoch(s, e) ==
    IF ~HasKey(s, SplitDot(e))
    THEN [status |-> 400, error |-> "BadRequest", body |-> << >>]
    ELSE IF ~EvalOk(HGet(s, SplitDot(e)))
    THEN [status |-> 500, error |-> "NameError", body |-> << >>]
    ELSE [status |-> 200, error |-> "none",
          body |-> << [epoch |-> e, val |-> HGet(s, SplitDot(e))] >>]

(* An object that is no number: a str or None. *)
NotNumber == [k |-> "str", n |-> 0]

NoValue == [k |-> "none", n |-> 0]

(* The float math.sqrt returns for a number n: the value whose square is n. *)
Sqrt(n) == [k |-> "sqrt", n |-> n]

(* speed lines 34-37.  c * c raises TypeError for an object that is no     *)
(* number, and speed raises ValueError for it; nan * nan is nan, a sum     *)
(* with nan is nan and math.sqrt(nan) returns nan.                         *)
Speed(x_dot, y_dot, z_dot) ==
    IF \E c \in {x_dot, y_dot, z_dot} : c.k = "str"
    THEN [status |-> 500, error |-> "ValueError", value |-> NoValue]
    ELSE IF \E c \in {x_dot, y_dot, z_dot} : c.k = "nan"
    THEN [status |-> 200, error |-> "none", value |-> NaNText]
    ELSE [status |-> 200, error |-> "none",
          value |-> Sqrt(x_dot.n * x_dot.n + y_dot.n * y_dot.n + z_dot.n * z_dot.n)]

(* list.sort() of datetimes, by insertion. *)
Insert(sorted, x) ==
    LET k == Cardinality({i \in 1..Len(sorted) : sorted[i] <= x})
    IN  SubSeq(sorted, 1, k) \o << x >> \o SubSeq(sorted, k + 1, Len(sorted))

RECURSIVE Sort(_)
Sort(sq) == IF sq = << >> THEN << >> ELSE Insert(Sort(Tail(sq)), Head(sq))

(* epoch_range lines 117-130 for one HGETALL result: a key strptime        *)
(* rejects raises ValueError, and epochs[0] of no epoch IndexError.        *)
EpochRange(fields) ==
    LET epochs == Sort([i \in 1..Len(fields) |-> Strptime(fields[i].key)])
    IN  IF \E i \in 1..Len(fields) : ~StrptimeOk(fields[i].key)
        THEN [status |-> 500, error |-> "ValueError", first |-> 0, last |-> 0, span |-> 0]
        ELSE IF Len(fields) = 0
        THEN [status |-> 500, error |-> "IndexError", first |-> 0, last |-> 0, span |-> 0]
        ELSE [status |-> 200, error |-> "none", first |-> epochs[1],
              last |-> epochs[Len(epochs)], span |-> epochs[Len(epochs)] - epochs[1]]

(* An avg_speed that lets no epoch through to the division. *)
EmptyCount_Negative(count) == count < 0

(* avg_speed line 143: no epoch was counted. *)
EmptyCount(count) == count <= 0

(* avg_speed lines 138-148 for one HGETALL result: eval of each value,     *)
(* then the speed of its velocity; speeds holds the terms of the sum, in   *)
(* the order of the scan, and the return is their sum over their number.   *)
AvgSpeed(fields) ==
    LET count == Len(fields)
    IN  IF \E i \in 1..Len(fields) : ~EvalOk(fields[i].val)
        THEN [status |-> 500, error |-> "NameError", speeds |-> << >>]
        ELSE IF EmptyCount(count)
        THEN [status |-> 500, error |-> "ValueError", speeds |-> << >>]
        ELSE IF count = 0
        THEN [status |-> 500, error |-> "ZeroDivisionError", speeds |-> << >>]
        ELSE [status |-> 200, error |-> "none",
              speeds |-> [i \in 1..Len(fields) |->
                            Speed(fields[i].val.x_dot, fields[i].val.y_dot,
                                  fields[i].val.z_dot).value]]

(* get_now_epoch line 241 calls closest_epoch(): dateTime is its default,  *)
(* whatever the clock reads at the call.                                   *)
NowTarget(clock) == defaultNow

---------------------------------------------------------------------------
(* The state machine.                                                      *)

ArgVals == -1..MaxArg

(* Epochs clients ask GET /epochs/<epoch> for, in layout l. *)
RequestEpochs(l) == {Epoch(l, s, f) : s \in {0, 1, 9}, f \in {"none", "000", "123"}}

Init ==
    /\ layout \in Layouts
    /\ store = EmptyHash
    /\ feed \in FeedStates
    /\ defaultNow = 0
    /\ pc = [h \in Handlers |-> "idle"]
    /\ doc = [h \in Handlers |-> << >>]
    /\ idx = [h \in Handlers |-> 0]
    /\ hist = [h \in Handlers |-> NoHist]
    /\ out = NoOut
    /\ goodFetches = 0
    /\ lastLoadFailed = FALSE

(* No response is on its way out. *)
Quiet == out.route = "none"

(* The response is sent.  Sending touches nothing the handlers share, so   *)
(* it is taken as the step that follows the one that made the response.    *)
Sent ==
    /\ ~Quiet
    /\ out' = NoOut
    /\ UNCHANGED <<layout, store, feed, defaultNow, pc, doc, idx, hist, goodFetches,
                   lastLoadFailed>>

(* Handler h ends its request: its locals are gone. *)
Ends(h) ==
    /\ pc' = [pc EXCEPT ![h] = "idle"]
    /\ doc' = [doc EXCEPT ![h] = << >>]
    /\ idx' = [idx EXCEPT ![h] = 0]
    /\ hist' = [hist EXCEPT ![h] = NoHist]

(* GET /epochs with a limit or an offset int() rejects: lines 162-173. *)
BadArgs(h) ==
    /\ Quiet
    /\ pc[h] = "idle"
    /\ out' = Response(h, "epochs", 400, "BadRequest", NoHist)
    /\ UNCHANGED <<layout, store, feed, defaultNow, pc, doc, idx, hist, goodFetches,
                   lastLoadFailed>>

(* GET /epochs otherwise: get_iss_data line 73, HLEN. *)
CheckLen(h) ==
    /\ Quiet
    /\ pc[h] = "idle"
    /\ hist' = [hist EXCEPT ![h] =
            [NoHist EXCEPT !.sawLen = HLen(store),
                           !.recovering = (lastLoadFailed /\ Healthy(feed))]]
    /\ pc' = [pc EXCEPT ![h] = IF LoadNeeded(HLen(store)) THEN "fetch" ELSE "hgetall"]
    /\ out' = NoOut
    /\ UNCHANGED <<layout, store, feed, defaultNow, doc, idx, goodFetches, lastLoadFailed>>

(* process_data lines 47-55: the fetch and the XML parse. *)
Fetch(h) ==
    /\ Quiet
    /\ pc[h] = "fetch"
    /\ IF IsDoc(feed)
       THEN /\ doc' = [doc EXCEPT ![h] = DocOf(feed, layout)]
            /\ idx' = [idx EXCEPT ![h] = 1]
            /\ pc' = [pc EXCEPT ![h] =
                    IF Len(DocOf(feed, layout)) = 0 THEN "hgetall" ELSE "ingest"]
            /\ hist' = [hist EXCEPT ![h].fetched = TRUE]
            /\ goodFetches' = IF Healthy(feed) THEN goodFetches + 1 ELSE goodFetches
            /\ out' = NoOut
            /\ UNCHANGED lastLoadFailed
       ELSE /\ Ends(h)
            /\ out' = Response(h, "epochs", 500,
                               IF feed = "down" THEN "TypeError" ELSE "ParseError",
                               [hist[h] EXCEPT !.fetched = TRUE])
            /\ lastLoadFailed' = TRUE
            /\ UNCHANGED goodFetches
    /\ UNCHANGED <<layout, store, feed, defaultNow>>

(* process_data lines 56-64: one turn of the loop over the stateVectors. *)
Ingest(h) ==
    /\ Quiet
    /\ pc[h] = "ingest"
    /\ LET el == doc[h][idx[h]] IN
       IF ElementOk(el)
       THEN /\ store' = HSet(store, SplitDot(el.EPOCH), DictOf(el))
            /\ idx' = [idx EXCEPT ![h] = idx[h] + 1]
            /\ pc' = [pc EXCEPT ![h] = IF idx[h] = Len(doc[h]) THEN "hgetall" ELSE "ingest"]
            /\ hist' = [hist EXCEPT ![h].wrote = TRUE]
            /\ out' = NoOut
            /\ UNCHANGED <<doc, lastLoadFailed>>
       ELSE /\ Ends(h)
            /\ out' = Response(h, "epochs", 500, "ValueError", hist[h])
            /\ lastLoadFailed' = TRUE
            /\ UNCHANGED store
    /\ UNCHANGED <<layout, feed, defaultNow, goodFetches>>

(* get_iss_data line 82 (HGETALL), and get_epochs with the list: returned  *)
(* whole (line 161) or sliced (lines 175-185).                             *)
ReadAll(h) ==
    /\ Quiet
    /\ pc[h] = "hgetall"
    /\ \E fields \in HGetAll(store) :
         LET series == Decorate(fields)
             whole == [Response(h, "epochs", 200, "none", hist[h]) EXCEPT
                          !.series = series, !.body = series]
         IN  IF \E i \in 1..Len(fields) : ~EvalOk(fields[i].val)
             THEN /\ out' = Response(h, "epochs", 500, "NameError", hist[h])
                  /\ lastLoadFailed' = TRUE
             ELSE /\ \/ out' = whole
                     \/ \E limit, offset \in ArgVals :
                          LET r == GetEpochsSlice(series, limit, offset)
                          IN  out' = [whole EXCEPT !.args = "int", !.limit = limit,
                                         !.offset = offset, !.status = r.status,
                                         !.error = r.error, !.body = r.body]
                  /\ lastLoadFailed' = FALSE
    /\ Ends(h)
    /\ UNCHANGED <<layout, store, feed, defaultNow, goodFetches>>

(* A get_specific_epoch that keeps what it found under the epoch of the    *)
(* request.                                                                *)
GetSpecificEpoch_Caching(h) ==
    /\ Quiet
    /\ pc[h] = "idle"
    /\ \E e \in RequestEpochs(layout) :
         LET l == LookupEpoch(store, e)
         IN  /\ out' = [Response(h, "epoch", l.status, l.error, NoHist) EXCEPT
                           !.epoch = e, !.body = l.body]
             /\ store' = IF l.status = 200 THEN HSet(store, e, l.body[1].val) ELSE store
    /\ UNCHANGED <<layout, feed, defaultNow, pc, doc, idx, hist, goodFetches,
                   lastLoadFailed>>

(* GET /epochs/<epoch>: get_specific_epoch lines 194-199, HGET. *)
GetSpecificEpoch(h) ==
    /\ Quiet
    /\ pc[h] = "idle"
    /\ \E e \in RequestEpochs(layout) :
         LET key == SplitDot(e)
             d == DocOf(feed, layout)
             r == [Response(h, "epoch", 400, "BadRequest", NoHist) EXCEPT
                      !.epoch = e, !.wasEmpty = (HLen(store) = 0), !.feedOk = Healthy(feed),
                      !.inFeed = (\E i \in 1..Len(d) : SplitDot(d[i].EPOCH) = key)]
             l == LookupEpoch(store, e)
         IN  out' = [r EXCEPT !.status = l.status, !.error = l.error, !.body = l.body]
    /\ UNCHANGED <<layout, store, feed, defaultNow, pc, doc, idx, hist, goodFetches,
                   lastLoadFailed>>

(* GET /now: closest_epoch lines 90-92, HLEN; an empty hash raises         *)
(* ValueError, which Flask answers with 500.                               *)
NowCheck(h) ==
    /\ Quiet
    /\ pc[h] = "idle"
    /\ IF HLen(store) = 0
       THEN /\ out' = [Response(h, "now", 500, "ValueError", NoHist) EXCEPT
                          !.wasEmpty = TRUE, !.feedOk = Healthy(feed)]
            /\ UNCHANGED pc
       ELSE /\ pc' = [pc EXCEPT ![h] = "scan_now"]
            /\ out' = NoOut
    /\ UNCHANGED <<layout, store, feed, defaultNow, doc, idx, hist, goodFetches,
                   lastLoadFailed>>

(* GET /now: closest_epoch lines 93-106 (HGETALL and the scan) and         *)
(* get_now_epoch line 242, at any reading of the clock.                    *)
NowScan(h) ==
    /\ Quiet
    /\ pc[h] = "scan_now"
    /\ \E fields \in HGetAll(store), clock \in 0..MaxClock :
         LET r == ClosestEpoch(fields, NowTarget(clock))
         IN  out' = [Response(h, "now", r.status, r.error, NoHist) EXCEPT
                        !.body = r.body, !.series = Decorate(fields),
                        !.target = NowTarget(clock), !.now = clock]
    /\ Ends(h)
    /\ UNCHANGED <<layout, store, feed, defaultNow, goodFetches, lastLoadFailed>>

(* The upstream starts serving something else. *)
FeedChange ==
    /\ Quiet
    /\ \E f \in FeedStates \ {feed} : feed' = f
    /\ out' = NoOut
    /\ UNCHANGED <<layout, store, defaultNow, pc, doc, idx, hist, goodFetches,
                   lastLoadFailed>>

(* GET /epochs/<epoch>/speed: get_specific_speed lines 208-209; what       *)
(* get_specific_epoch raises goes through.                                 *)
GetSpecificSpeed(h) ==
    /\ Quiet
    /\ pc[h] = "idle"
    /\ \E e \in RequestEpochs(layout) :
         LET l == LookupEpoch(store, e)
             r == [Response(h, "epoch_speed", l.status, l.error, NoHist) EXCEPT
                      !.epoch = e, !.wasEmpty = (HLen(store) = 0)]
         IN  out' = IF l.status = 200
                    THEN LET v == l.body[1].val
                         IN  [r EXCEPT !.value = Speed(v.x_dot, v.y_dot, v.z_dot).value,
                                       !.comps = << v.x_dot, v.y_dot, v.z_dot >>]
                    ELSE r
    /\ UNCHANGED <<layout, store, feed, defaultNow, pc, doc, idx, hist, goodFetches,
                   lastLoadFailed>>

(* GET /epochs/<epoch>/location: compute_location_astropy lines 220-233.   *)
(* What get_specific_epoch raises goes through; time.strptime at line 225  *)
(* takes the day-of-year layout with a fraction only; astropy and the      *)
(* geocoder are outside the program and answer or raise.                   *)
ComputeLocation(h) ==
    /\ Quiet
    /\ pc[h] = "idle"
    /\ \E e \in RequestEpochs(layout), answered \in BOOLEAN :
         LET l == LookupEpoch(store, e)
             r == [Response(h, "epoch_location", l.status, l.error, NoHist) EXCEPT
                      !.epoch = e, !.wasEmpty = (HLen(store) = 0)]
         IN  out' = IF l.status # 200 THEN r
                    ELSE IF ~(e.fmt = "doy" /\ e.frac # "none")
                    THEN [r EXCEPT !.status = 500, !.error = "ValueError"]
                    ELSE IF answered THEN [r EXCEPT !.body = l.body]
                    ELSE [r EXCEPT !.status = 500, !.error = "External"]
    /\ UNCHANGED <<layout, store, feed, defaultNow, pc, doc, idx, hist, goodFetches,
                   lastLoadFailed>>

(* Largest velocity component speed is called with. *)
MaxComp == 2

SpeedArgs == {Num(n) : n \in 0..MaxComp} \cup {NaNText, NotNumber}

(* A call of speed with any three objects. *)
CallSpeed(h) ==
    /\ Quiet
    /\ pc[h] = "idle"
    /\ \E x_dot, y_dot, z_dot \in SpeedArgs :
         LET r == Speed(x_dot, y_dot, z_dot)
         IN  out' = [Response(h, "speed", r.status, r.error, NoHist) EXCEPT
                        !.value = r.value, !.comps = << x_dot, y_dot, z_dot >>]
    /\ UNCHANGED <<layout, store, feed, defaultNow, pc, doc, idx, hist, goodFetches,
                   lastLoadFailed>>

(* A call of closest_epoch with a dateTime: lines 90-92, HLEN. *)
ClosestCheck(h) ==
    /\ Quiet
    /\ pc[h] = "idle"
    /\ IF HLen(store) = 0
       THEN /\ out' = [Response(h, "closest", 500, "ValueError", NoHist) EXCEPT
                          !.wasEmpty = TRUE]
            /\ UNCHANGED pc
       ELSE /\ pc' = [pc EXCEPT ![h] = "scan_at"]
            /\ out' = NoOut
    /\ UNCHANGED <<layout, store, feed, defaultNow, doc, idx, hist, goodFetches,
                   lastLoadFailed>>

(* closest_epoch lines 93-106 with the dateTime of the call. *)
ClosestScan(h) ==
    /\ Quiet
    /\ pc[h] = "scan_at"
    /\ \E fields \in HGetAll(store), dateTime \in 0..MaxClock :
         LET r == ClosestVector(fields, dateTime)
         IN  out' = [Response(h, "closest", r.status, r.error, NoHist) EXCEPT
                        !.body = r.body, !.series = Decorate(fields),
                        !.target = dateTime]
    /\ Ends(h)
    /\ UNCHANGED <<layout, store, feed, defaultNow, goodFetches, lastLoadFailed>>

(* A call of epoch_range: lines 113-115, HLEN. *)
RangeCheck(h) ==
    /\ Quiet
    /\ pc[h] = "idle"
    /\ IF HLen(store) = 0
       THEN /\ out' = [Response(h, "range", 500, "ValueError", NoHist) EXCEPT
                          !.wasEmpty = TRUE]
            /\ UNCHANGED pc
       ELSE /\ pc' = [pc EXCEPT ![h] = "range"]
            /\ out' = NoOut
    /\ UNCHANGED <<layout, store, feed, defaultNow, doc, idx, hist, goodFetches,
                   lastLoadFailed>>

(* epoch_range lines 117-130, HGETALL and the sort. *)
RangeScan(h) ==
    /\ Quiet
    /\ pc[h] = "range"
    /\ \E fields \in HGetAll(store) :
         LET r == EpochRange(fields)
         IN  out' = [Response(h, "range", r.status, r.error, NoHist) EXCEPT
                        !.series = Decorate(fields), !.first = r.first,
                        !.last = r.last, !.span = r.span]
    /\ Ends(h)
    /\ UNCHANGED <<layout, store, feed, defaultNow, goodFetches, lastLoadFailed>>

(* A call of avg_speed: lines 138-148, one HGETALL. *)
AvgSpeedCall(h) ==
    /\ Quiet
    /\ pc[h] = "idle"
    /\ \E fields \in HGetAll(store) :
         LET r == AvgSpeed(fields)
         IN  out' = [Response(h, "avg", r.status, r.error, NoHist) EXCEPT
                        !.series = Decorate(fields), !.speeds = r.speeds,
                        !.wasEmpty = (Len(fields) = 0)]
    /\ UNCHANGED <<layout, store, feed, defaultNow, pc, doc, idx, hist, goodFetches,
                   lastLoadFailed>>

(* The upstream starts serving any document of the model. *)
FeedChangeAny ==
    /\ Quiet
    /\ \E f \in AllFeeds \ {feed} : feed' = f
    /\ out' = NoOut
    /\ UNCHANGED <<layout, store, defaultNow, pc, doc, idx, hist, goodFetches,
                   lastLoadFailed>>

Next ==
    \/ \E h \in Handlers :
         \/ BadArgs(h)
         \/ CheckLen(h)
         \/ Fetch(h)
         \/ Ingest(h)
         \/ ReadAll(h)
         \/ GetSpecificEpoch(h)
         \/ GetSpecificSpeed(h)
         \/ ComputeLocation(h)
         \/ NowCheck(h)
         \/ NowScan(h)
    \/ FeedChange
    \/ Sent

Spec == Init /\ [][Next]_vars

(* The hash after process_data has run to its end on document d. *)
RECURSIVE Ingested(_, _)
Ingested(d, n) ==
    IF n = 0 THEN EmptyHash
    ELSE HSet(Ingested(d, n - 1), SplitDot(d[n].EPOCH), DictOf(d[n]))

(* Longest feed whose hash the slice is taken of. *)
MaxLen == 4

(* GET /epochs on a hash that holds a well-formed feed of 1..MaxLen        *)
(* stateVectors: get_iss_data and the slice for every list and argument.   *)
InitSlice ==
    /\ layout \in Layouts
    /\ \E n \in 1..MaxLen : store = Ingested(LongDoc(layout, n), n)
    /\ feed = "good"
    /\ defaultNow = 0
    /\ pc = [h \in Handlers |-> "idle"]
    /\ doc = [h \in Handlers |-> << >>]
    /\ idx = [h \in Handlers |-> 0]
    /\ hist = [h \in Handlers |-> NoHist]
    /\ out = NoOut
    /\ goodFetches = 1
    /\ lastLoadFailed = FALSE

NextSlice ==
    \/ \E h \in Handlers :
         \/ CheckLen(h)
         \/ ReadAll(h)
    \/ Sent

SpecSlice == InitSlice /\ [][NextSlice]_vars

(* Every route and every function of the module, called one at a time on   *)
(* a hash that starts empty, with every document of the model upstream.    *)
InitQuery ==
    /\ layout \in Layouts
    /\ store = EmptyHash
    /\ feed \in AllFeeds
    /\ defaultNow = 0
    /\ pc = [h \in Handlers |-> "idle"]
    /\ doc = [h \in Handlers |-> << >>]
    /\ idx = [h \in Handlers |-> 0]
    /\ hist = [h \in Handlers |-> NoHist]
    /\ out = NoOut
    /\ goodFetches = 0
    /\ lastLoadFailed = FALSE

(* The one caller. *)
Caller == "h1"

NextQuery ==
    \/ BadArgs(Caller)
    \/ CheckLen(Caller)
    \/ Fetch(Caller)
    \/ Ingest(Caller)
    \/ ReadAll(Caller)
    \/ GetSpecificEpoch(Caller)
    \/ GetSpecificSpeed(Caller)
    \/ ComputeLocation(Caller)
    \/ NowCheck(Caller)
    \/ NowScan(Caller)
    \/ CallSpeed(Caller)
    \/ ClosestCheck(Caller)
    \/ ClosestScan(Caller)
    \/ RangeCheck(Caller)
    \/ RangeScan(Caller)
    \/ AvgSpeedCall(Caller)
    \/ FeedChangeAny
    \/ Sent

SpecQuery == InitQuery /\ [][NextQuery]_vars

---------------------------------------------------------------------------
(* Properties.                                                             *)

(* The keys process_data stores for document d. *)
KeysOf(d) == {SplitDot(d[i].EPOCH) : i \in 1..Len(d)}

EpochsOf(series) == {series[i].epoch : i \in 1..Len(series)}

(* The response of a GET /epochs that called get_iss_data. *)
Loaded == out.route = "epochs" /\ out.sawLen >= 0

(* The response of a GET /epochs that got its list and had integer         *)
(* arguments: the slice was taken.                                         *)
Sliced == out.route = "epochs" /\ out.args = "int"

(* C1: when handlers call get_iss_data concurrently on an empty hash, the  *)
(* feed is fetched and ingested once: a well-formed non-empty document,    *)
(* after which the hash is never empty again, is fetched at most once.     *)
C1_FetchedOnce == goodFetches <= 1

(* C2: the list get_iss_data returns to a handler is never a part of the   *)
(* feed: it is empty or holds every record of the parsed feed.             *)
C2_NeverPartial ==
    (Loaded /\ out.error \in {"none", "BadRequest", "IndexError"})
        => (out.series = << >> \/ EpochsOf(out.series) = KeysOf(GoodDoc(layout)))

(* C3: when the ingest raises, whatever the reason, the call has written   *)
(* no record of the failed document to the hash.                           *)
C3_FailedIngestWritesNothing ==
    (Loaded /\ out.error \in {"TypeError", "ParseError", "ValueError"}) => ~out.wrote

(* C4: a failure is not cached: a get_iss_data call made after a failed    *)
(* one, while the feed is healthy, fetches the feed and leaves the hash    *)
(* with every record of it.                                                *)
C4_FailureNotCached ==
    (Loaded /\ out.recovering /\ Healthy(feed))
        => (out.fetched /\ DOMAIN store = KeysOf(DocOf(feed, layout)))

(* C5: a get_iss_data call that finds at least one entry in the hash       *)
(* fetches nothing and writes nothing, at any point of the call.           *)
C5_IdempotentWhenPopulated ==
    /\ \A h \in Handlers :
         hist[h].sawLen > 0 =>
            ~hist[h].fetched /\ ~hist[h].wrote /\ pc[h] \notin {"fetch", "ingest"}
    /\ out.sawLen > 0 => ~out.fetched /\ ~out.wrote

C5_Witness == Loaded /\ out.sawLen > 0 /\ out.status = 200 /\ Len(out.series) = 3

(* C6: on an empty hash with a healthy feed, GET /epochs/<epoch> for an    *)
(* epoch of the feed and GET /now load the feed and succeed.               *)
C6_FirstAccessLoads ==
    (/\ out.route \in {"epoch", "now"}
     /\ out.wasEmpty
     /\ out.feedOk
     /\ out.route = "epoch" => out.inFeed)
        => out.status = 200

(* C7: for 0 < offset < n, when limit <= 0 or offset + limit >= n the      *)
(* slice succeeds with the records at indices offset .. n-1.               *)
C7_ClampsToEnd ==
    LET n == Len(out.series) IN
    (/\ Sliced
     /\ 0 < out.offset /\ out.offset < n
     /\ (out.limit <= 0 \/ out.offset + out.limit >= n))
        => /\ out.status = 200
           /\ out.body = SubSeq(out.series, out.offset + 1, n)

(* C8 as stated: offset <= 0 or offset >= len(series) is answered with     *)
(* 400 for every limit, and the failing request has not written to the     *)
(* hash.                                                                   *)
C8_RejectsAndWritesNothing ==
    (Sliced /\ (out.offset <= 0 \/ out.offset >= Len(out.series)))
        => (out.status = 400 /\ ~out.wrote)

(* C8 amended: offset <= 0 or offset >= len(series) is answered with 400   *)
(* for every limit and sends no record; the failing request has written to *)
(* the hash only if its get_iss_data call found the hash empty.            *)
C8_RejectsOutOfRange ==
    (Sliced /\ (out.offset <= 0 \/ out.offset >= Len(out.series)))
        => /\ out.status = 400
           /\ out.body = << >>
           /\ out.wrote => out.sawLen = 0

C8_Witness ==
    /\ Sliced /\ out.status = 400
    /\ out.offset = 0 /\ Len(out.series) = 3 /\ out.sawLen = 3

(* C9: for 0 < offset, 0 < limit and offset + limit < n the slice is the   *)
(* limit records at indices offset .. offset+limit-1, in the list's order. *)
C9_ExactSlice ==
    LET n == Len(out.series) IN
    (Sliced /\ 0 < out.offset /\ 0 < out.limit /\ out.offset + out.limit < n)
        => /\ out.status = 200
           /\ Len(out.body) = out.limit
           /\ \A j \in 1..out.limit : out.body[j] = out.series[out.offset + j]

C9_Witness ==
    /\ Sliced /\ out.status = 200
    /\ out.offset = 2 /\ out.limit = 1 /\ Len(out.series) = 4

(* C10: GET /now answers with a record whose epoch is nearest to the clock *)
(* at the time of the request.                                             *)
C10_NearestToRequestTime ==
    (out.route = "now" /\ out.status = 200)
        => \A i \in 1..Len(out.series) :
              Abs(out.body[1].epoch.sec - out.now) <= Abs(out.series[i].epoch.sec - out.now)


(* What a call of closest_epoch that got past its HLEN check answered. *)
Scanned == out.route = "closest" /\ Len(out.series) > 0

Dist(i) == Abs(out.series[i].epoch.sec - out.target)

(* C11: for every non-empty series and every dateTime, closest_epoch       *)
(* returns a record of the series whose distance in time to dateTime is    *)
(* the least of the series, and of several such the first of the scan.     *)
C11_MinimalFirstWins ==
    Scanned =>
        /\ out.status = 200
        /\ Len(out.body) = 1
        /\ \E i \in 1..Len(out.series) :
              /\ out.body[1].val = out.series[i].val
              /\ out.body[1].epoch.sec = out.series[i].epoch.sec
              /\ \A j \in 1..Len(out.series) : Dist(i) <= Dist(j)
              /\ \A j \in 1..(i - 1) : Dist(j) > Dist(i)


(* C12: for every record ingested under key K, get_specific_epoch of K     *)
(* and of every request epoch whose text before the first '.' is K         *)
(* returns the six values stored under K; a request epoch whose text       *)
(* before the first '.' is no key of the hash is a miss.                   *)
C12_RoundTrip ==
    out.route = "epoch" =>
        IF HasKey(store, SplitDot(out.epoch))
        THEN /\ out.status = 200
             /\ Len(out.body) = 1
             /\ out.body[1].val = HGet(store, SplitDot(out.epoch))
        ELSE out.status # 200 /\ out.body = << >>


(* process_data has returned to the get_iss_data of handler h: the loop    *)
(* of lines 56-64 went through every stateVector of doc[h].                *)
IngestDone(h) == pc[h] = "hgetall" /\ hist[h].fetched

(* Element i is the last of document d with its truncated epoch. *)
LastOfKey(d, i) ==
    \A j \in (i + 1)..Len(d) : SplitDot(d[j].EPOCH) # SplitDot(d[i].EPOCH)

(* C13: after an ingest the hash has one field for each distinct           *)
(* truncated epoch of the document, and of the records whose epochs        *)
(* differ in the fraction of the second only it holds the values of the    *)
(* one that comes last in the document.                                    *)
C13_LaterWriteWins ==
    \A h \in Handlers :
        IngestDone(h) =>
            /\ HLen(store) = Cardinality(KeysOf(doc[h]))
            /\ \A i \in 1..Len(doc[h]) :
                  LastOfKey(doc[h], i) =>
                      /\ HasKey(store, SplitDot(doc[h][i].EPOCH))
                      /\ HGet(store, SplitDot(doc[h][i].EPOCH)) = DictOf(doc[h][i])

(* The ingest of the document with the colliding epochs has ended. *)
C13_Witness ==
    /\ IngestDone(Caller)
    /\ doc[Caller] = DupDoc(layout)
    /\ HLen(store) = 2
    /\ HGet(store, SplitDot(DupDoc(layout)[1].EPOCH)) = DictOf(DupDoc(layout)[2])


(* What closest_epoch, epoch_range, avg_speed, speed, get_specific_epoch   *)
(* and get_specific_speed answer as.                                       *)
QueryRoutes == {"closest", "range", "avg", "speed", "epoch", "epoch_speed"}

(* A step of one of them: its answer, or its HLEN check passed. *)
QueryStep ==
    \/ out'.route \in QueryRoutes
    \/ \E h \in Handlers : pc[h] = "idle" /\ pc'[h] \in {"scan_at", "range"}

(* C14: closest_epoch, epoch_range, avg_speed, the speed of an epoch and   *)
(* get_specific_epoch leave the hash as it is, whether they return or      *)
(* raise.                                                                  *)
C14_QueriesOnlyRead == [][QueryStep => store' = store]_vars

(* get_specific_epoch has returned the record of an epoch asked for with  *)
(* a fraction of the second, from a hash of three fields.                  *)
C14_Witness ==
    /\ HLen(store) = 3
    /\ out.route = "epoch"
    /\ out.status = 200
    /\ out.epoch.frac = "123"


(* What the three routes under /epochs/<epoch> answer as. *)
EpochRoutes == {"epoch", "epoch_speed", "epoch_location"}

C16_MissAnswers500 ==
    (/\ out.route = "epoch"
     /\ HLen(store) > 0
     /\ ~HasKey(store, SplitDot(out.epoch))) => out.status = 500


(* What closest_epoch, epoch_range and avg_speed answer as. *)
SeriesRoutes == {"closest", "range", "avg"}

(* C17: on an empty hash closest_epoch, epoch_range and avg_speed each     *)
(* raise ValueError and return no value, and closest_epoch never returns   *)
(* None.                                                                   *)
C17_EmptyRaisesValueError ==
    /\ (out.route \in SeriesRoutes /\ HLen(store) = 0) =>
          /\ out.status = 500
          /\ out.error = "ValueError"
          /\ out.body = << >>
          /\ out.speeds = << >>
    /\ (out.route = "closest" /\ out.status = 200) => Len(out.body) = 1

(* avg_speed has raised ValueError on the empty hash. *)
C17_Witness ==
    /\ HLen(store) = 0
    /\ out.route = "avg"
    /\ out.error = "ValueError"


(* C18: speed raises ValueError whenever one of its three components is    *)
(* not a number, a nan included, and never returns a nan.                  *)
C18_RejectsNotANumber ==
    (out.route = "speed" /\ \E i \in 1..3 : out.comps[i].k # "num") =>
        /\ out.error = "ValueError"
        /\ out.value = NoValue


(* The epochs of the fields an epoch_range call went through. *)
Secs == {out.series[i].epoch.sec : i \in 1..Len(out.series)}

(* C19: for every non-empty hash and every order HGETALL gives its fields  *)
(* in, epoch_range returns the least epoch, the greatest epoch and their   *)
(* difference, so that first <= last and the difference is not negative.   *)
C19_MinMaxSpan ==
    (out.route = "range" /\ HLen(store) > 0) =>
        /\ out.status = 200
        /\ out.first \in Secs /\ \A t \in Secs : out.first <= t
        /\ out.last \in Secs /\ \A t \in Secs : t <= out.last
        /\ out.span = out.last - out.first
        /\ out.first <= out.last
        /\ out.span >= 0

(* C20: after get_iss_data has filled the hash from a well-formed feed     *)
(* with day-of-year epochs, closest_epoch and epoch_range read every key   *)
(* as a time and return, and the epochs GET /epochs lists are in the       *)
(* layout strptime reads.                                                  *)
C20_ReadersAcceptIngestedKeys ==
    (layout = "doy" /\ store = Ingested(GoodDoc(layout), Len(GoodDoc(layout)))) =>
        /\ out.route \in {"closest", "range"} => out.status = 200
        /\ (out.route = "epochs" /\ out.status = 200) =>
              \A i \in 1..Len(out.series) : StrptimeOk(out.series[i].epoch)

=============================================================================
